---------------------------- MODULE Spec2Model ----------------------------
(***************************************************************************)
(* A model of tailer/__init__.py: the chunk sizer power_of_2, the line     *)
(* boundary scanner Tailer (next, previous), the bulk extractors tail and  *)
(* head, the follow generator and the follow_path generator.  Spec is the  *)
(* scanner over a fixed stream, SpecSize the size property, SpecFollow one *)
(* follow session, SpecTruncate the truncate scenario and SpecPath a       *)
(* follow_path session.                                                    *)
(*                                                                         *)
(* A stream is a sequence of bytes; the cursor is a 0-based offset.  The   *)
(* bytes are CR, LF and ordinary data bytes.  Python's None and the empty  *)
(* bytes object are both falsy where the code tests them; a missing        *)
(* terminator is the empty sequence.                                       *)
(***************************************************************************)
EXTENDS Integers, Sequences, FiniteSets, TLC

VARIABLES
    stream,     \* scanner: the bytes of the stream handed to Tailer
    size,       \* scanner: Tailer._size
    pos,        \* scanner: the stream's cursor
    op,         \* scanner: the last operation called
    from,       \* scanner: the cursor when the last operation was called
    arg,        \* scanner: the argument of the last operation
    ret,        \* scanner: the offset returned by next/previous/seek
    lines,      \* scanner: the list returned by tail/head
    raised,     \* scanner: the exception the last operation raised, or "none"
    inode,      \* file system: the inode at the watched path, 0 when absent
    files,      \* file system: inode -> content, for every live inode
    handles,    \* file system: the inodes the follower holds open handles to
    following_file,          \* follower: inode of the open handle, 0 = None
    follow_generator,        \* follower: the inner generator, NoGen = None
    follow_from_end_on_open, \* follower: FollowPathGenerator's flag
    pfrom,      \* follower: the generator's cursor when the last poll began
    pre,        \* follower: the file system and session as the last poll began
    out,        \* follower: what the last poll returned
    err,        \* follower: the exception the last poll raised, or "none"
    yielded,    \* follower: the lines the polls have returned, in order
    opens,      \* follower: the end argument of the first Tailer opened, then
                \* whether a later Tailer was opened with end set
    swallows,   \* follow(): the lone terminators the session has swallowed
    wpc,        \* writer: the steps of the truncate scenario done so far
    polled      \* writer: a poll was made since the writer's last step

scanVars == <<stream, size, pos, op, from, arg, ret, lines, raised>>
fsVars == <<inode, files, handles>>
followVars == <<following_file, follow_generator, follow_from_end_on_open,
                pfrom, pre, out, err, yielded, opens, swallows>>
writerVars == <<wpc, polled>>
vars == <<scanVars, fsVars, followVars, writerVars>>

-----------------------------------------------------------------------------
(* Bounds *)

MaxLen == 3         \* longest stream handed to the scanner
MaxLines == 3       \* largest line count asked of tail and head
MaxFile == 3        \* longest content of a followed file
MaxPathFile == 2    \* longest content of a file at a watched path
MaxInode == 2       \* inode numbers the file system hands out
MaxStart == 2       \* longest content of a file when a session starts on it
MaxSwallows == 2    \* swallowed terminators counted in one follow session
MaxRequest == 70    \* sizes near 0 requested of the chunk sizer, by magnitude

-----------------------------------------------------------------------------
(* Bytes and sequences *)

CR == "CR"
LF == "LF"
Byte == {"a", CR, LF}

Min(a, b) == IF a <= b THEN a ELSE b

\* data[:n] and data[n:]
Take(s, n) == SubSeq(s, 1, Min(n, Len(s)))
Drop(s, n) == SubSeq(s, n + 1, Len(s))

SeqsUpTo(S, n) == UNION {[1..k -> S] : k \in 0..n}

\* stream.seek(p) then stream.read(n): the bytes at offsets p .. p+n-1
ReadAt(s, p, n) == SubSeq(s, p + 1, Min(p + n, Len(s)))

StartsWith(data, t) == Len(t) <= Len(data) /\ Take(data, Len(t)) = t
EndsWith(data, t) ==
    Len(t) <= Len(data) /\ Drop(data, Len(data) - Len(t)) = t

_terminators == << <<CR, LF>>, <<LF>>, <<CR>> >>

\* Tailer.prefix: the first terminator, in the order of _terminators, that
\* data starts with; None otherwise
prefix(data) ==
    IF StartsWith(data, _terminators[1]) THEN _terminators[1]
    ELSE IF StartsWith(data, _terminators[2]) THEN _terminators[2]
    ELSE IF StartsWith(data, _terminators[3]) THEN _terminators[3]
    ELSE <<>>

\* Tailer.suffix: the first terminator, in the order of _terminators, that
\* data ends with; None otherwise
suffix(data) ==
    IF EndsWith(data, _terminators[1]) THEN _terminators[1]
    ELSE IF EndsWith(data, _terminators[2]) THEN _terminators[2]
    ELSE IF EndsWith(data, _terminators[3]) THEN _terminators[3]
    ELSE <<>>

-----------------------------------------------------------------------------
(* power_of_2 *)

RECURSIVE BitAnd(_, _)
BitAnd(a, b) ==
    IF a = 0 \/ b = 0 THEN 0
    ELSE (IF a % 2 = 1 /\ b % 2 = 1 THEN 1 ELSE 0)
         + 2 * BitAnd(a \div 2, b \div 2)

RECURSIVE BitOrNat(_, _)
BitOrNat(a, b) ==
    IF a = 0 THEN b
    ELSE IF b = 0 THEN a
    ELSE (IF a % 2 = 1 \/ b % 2 = 1 THEN 1 ELSE 0)
         + 2 * BitOrNat(a \div 2, b \div 2)

\* x | y on Python's unbounded two's complement integers: ~x is -1 - x
BitOr(x, y) ==
    IF x >= 0 /\ y >= 0 THEN BitOrNat(x, y)
    ELSE IF x < 0 /\ y < 0 THEN -1 - BitAnd(-1 - x, -1 - y)
    ELSE IF x < 0 THEN -1 - ((-1 - x) - BitAnd(-1 - x, y))
    ELSE -1 - ((-1 - y) - BitAnd(-1 - y, x))

RECURSIVE Pow(_, _)
Pow(b, e) == IF e = 0 THEN 1 ELSE b * Pow(b, e - 1)

\* x >> m
ShiftRight(x, m) == x \div Pow(2, m)

\* sys.getsizeof of an int below 2^60: the object header and one 4-byte
\* digit per 30 bits
getsizeof(x) ==
    LET a == IF x < 0 THEN -x ELSE x
    IN  IF a = 0 THEN 24
        ELSE IF a < Pow(2, 30) THEN 28
        ELSE 32

RECURSIVE power_of_2_loop(_, _, _)
power_of_2_loop(x, mod, sz) ==
    IF mod < sz
    THEN power_of_2_loop(BitOr(x, ShiftRight(x, mod)), mod * 2, sz)
    ELSE x + 1

\* the chunk sizer without x -= 1
power_of_2_no_decrement(x) == power_of_2_loop(x, 1, getsizeof(x))

power_of_2(x) == power_of_2_loop(x - 1, 1, getsizeof(x - 1))

-----------------------------------------------------------------------------
(* Tailer.next *)

\* the while loop over data_where: the first offset of the chunk at which a
\* terminator starts, -1 when the chunk holds none
next_scan(data) ==
    LET hits == {w \in 0..(Len(data) - 1) : prefix(Drop(data, w)) # <<>>}
    IN  IF hits = {} THEN -1
        ELSE CHOOSE w \in hits : \A v \in hits : w <= v

\* next_loop without the peek for the LF of a CRLF that straddles two chunks
RECURSIVE next_loop_no_peek(_, _, _, _)
next_loop_no_peek(s, sz, where, offset) ==
    LET p == where + offset
        data == ReadAt(s, p, sz)
        w == next_scan(data)
    IN  IF Len(data) = 0
        THEN [ret |-> -1, pos |-> p, raised |-> "none"]
        ELSE IF w # -1
        THEN LET r == where + offset + w + Len(prefix(Drop(data, w)))
             IN  [ret |-> r, pos |-> r, raised |-> "none"]
        ELSE next_loop_no_peek(s, sz, where, offset + Len(data))

RECURSIVE next_loop(_, _, _, _)
next_loop(s, sz, where, offset) ==
    LET p == where + offset
        data0 == ReadAt(s, p, sz)
        folded == /\ data0[Len(data0)] = CR
                  /\ ReadAt(s, p + Len(data0), 1) = <<LF>>
        data == IF folded THEN data0 \o <<LF>> ELSE data0
        w == next_scan(data)
    IN  IF Len(data0) = 0
        THEN [ret |-> -1, pos |-> p, raised |-> "none"]
        ELSE IF w # -1
        THEN LET r == where + offset + w + Len(prefix(Drop(data, w)))
             IN  [ret |-> r, pos |-> r, raised |-> "none"]
        ELSE next_loop(s, sz, where, offset + Len(data))

next(s, sz, where) == next_loop(s, sz, where, 0)

-----------------------------------------------------------------------------
(* Tailer.previous *)

\* the while loop over data_where: the offset in the chunk just past the
\* terminator found, -1 when the loop ends without one
RECURSIVE previous_scan(_, _, _)
previous_scan(data, data_where, offset) ==
    LET terminator == suffix(Take(data, data_where))
    IN  IF data_where <= 0 THEN -1
        ELSE IF terminator # <<>> /\ offset = 0 /\ data_where = Len(data)
        THEN previous_scan(data, data_where - Len(terminator), offset)
        ELSE IF terminator # <<>> THEN data_where
        ELSE previous_scan(data, data_where - 1, offset)

\* the peek of one byte before a chunk that starts with LF
previous_fold(s, where, offset, data0) ==
    LET terminator_where == where - offset
    IN  IF /\ data0[1] = LF
           /\ terminator_where > Len(data0) + 1
           /\ ReadAt(s, where - offset - Len(data0) - 1, 1) = <<CR>>
        THEN <<CR>> \o data0
        ELSE data0

\* the size of the chunk read in one iteration
previous_read_size(sz, where, offset) == IF sz <= where THEN sz ELSE where

RECURSIVE previous_loop(_, _, _, _, _)
previous_loop(s, sz, where, offset, cur) ==
    LET read_size == previous_read_size(sz, where, offset)
        target == where - offset - read_size
        data0 == ReadAt(s, target, read_size)
        data == previous_fold(s, where, offset, data0)
        w == previous_scan(data, Len(data), offset)
    IN  IF offset = where
        THEN IF where = 0
             THEN [ret |-> -1, pos |-> cur, raised |-> "none"]
             ELSE [ret |-> 0, pos |-> 0, raised |-> "none"]
        ELSE IF target < 0
        THEN [ret |-> -1, pos |-> cur, raised |-> "negative seek"]
        ELSE IF Len(data0) = 0
        THEN [ret |-> -1, pos |-> target, raised |-> "IndexError"]
        ELSE IF w # -1
        THEN LET r == where - offset - (Len(data) - w)
             IN  [ret |-> r, pos |-> r, raised |-> "none"]
        ELSE previous_loop(s, sz, where, offset + Len(data), where - offset)

previous(s, sz, where) == previous_loop(s, sz, where, 0, where)

-----------------------------------------------------------------------------
(* Tailer.splitlines, Tailer.tail, Tailer.head *)

\* re.split(b"\r\n|\n|\r", data)
RECURSIVE resplit(_, _)
resplit(data, acc) ==
    IF data = <<>> THEN <<acc>>
    ELSE LET t == prefix(data)
         IN  IF t # <<>>
             THEN <<acc>> \o resplit(Drop(data, Len(t)), <<>>)
             ELSE resplit(Tail(data), Append(acc, Head(data)))

splitlines(data) == resplit(data, <<>>)

\* the for loop of tail and head: drop one terminator from the end of data
chop(data) == Take(data, Len(data) - Len(suffix(data)))

\* the return statement without its test of data
to_lines_unguarded(data) == splitlines(data)

\* self.splitlines(data) if data else []
to_lines(data) == IF data # <<>> THEN splitlines(data) ELSE <<>>

\* while lines and self.previous() != -1: lines -= 1
RECURSIVE tail_seek(_, _, _, _)
tail_seek(s, sz, cur, n) ==
    LET r == previous(s, sz, cur)
    IN  IF n = 0 THEN [pos |-> cur, raised |-> "none"]
        ELSE IF r.raised # "none" THEN [pos |-> r.pos, raised |-> r.raised]
        ELSE IF r.ret = -1 THEN [pos |-> r.pos, raised |-> "none"]
        ELSE tail_seek(s, sz, r.pos, n - 1)

tail(s, sz, n) ==
    LET k == tail_seek(s, sz, Len(s), n)
    IN  IF k.raised # "none"
        THEN [lines |-> <<>>, pos |-> k.pos, raised |-> k.raised]
        ELSE [lines |-> to_lines(chop(Drop(s, k.pos))), pos |-> Len(s),
              raised |-> "none"]

\* while lines and self.next() != -1: lines -= 1
RECURSIVE head_seek(_, _, _, _)
head_seek(s, sz, cur, n) ==
    LET r == next(s, sz, cur)
    IN  IF n = 0 THEN cur
        ELSE IF r.ret = -1 THEN r.pos
        ELSE head_seek(s, sz, r.pos, n - 1)

head(s, sz, n) ==
    LET end_pos == head_seek(s, sz, 0, n)
    IN  [lines |-> to_lines(chop(ReadAt(s, 0, end_pos))), pos |-> end_pos,
         raised |-> "none"]

-----------------------------------------------------------------------------
(* The scanner: a Tailer over a fixed stream *)

\* the read sizes the scanner is constructed with
ReadSizes == {1, 2, 1024}

\* no generator (None); a generator is its frame (live or done), the local
\* trailing, and the cursor and inode of the stream it reads
NoGen == [state |-> "none", trailing |-> FALSE, pos |-> 0, ino |-> 0]

\* what a poll returns: None, a line, or nothing because it raised
NoOut == [kind |-> "-", line |-> <<>>]
NoneOut == [kind |-> "None", line |-> <<>>]
RaiseOut == [kind |-> "raise", line |-> <<>>]
LineOut(l) == [kind |-> "line", line |-> l]

\* the facts a poll found: the open handle's inode, whether the session had
\* read its file to the end, the inode at the path, how opening fails, whether
\* the generator was live with trailing set, what its stream held from the
\* cursor on, and what the generator returned to the poll
NoPre ==
    [following |-> 0, drained |-> FALSE, path |-> 0, fail |-> "none",
     live |-> FALSE, trailing |-> FALSE, pending |-> "nothing",
     inner |-> "-"]

\* the variables of the follower, idle while the scanner runs
FollowIdle ==
    /\ inode = 0
    /\ files = <<>>
    /\ handles = {}
    /\ following_file = 0
    /\ follow_generator = NoGen
    /\ follow_from_end_on_open = FALSE
    /\ pfrom = 0
    /\ pre = NoPre
    /\ out = NoOut
    /\ err = "none"
    /\ yielded = <<>>
    /\ opens = <<>>
    /\ swallows = 0
    /\ wpc = 0
    /\ polled = FALSE

\* the variables of the scanner, idle while the follower runs
ScanIdle ==
    /\ stream = <<>>
    /\ size = 1
    /\ pos = 0
    /\ op = "init"
    /\ from = 0
    /\ arg = 0
    /\ ret = 0
    /\ lines = <<>>
    /\ raised = "none"

\* Tailer(stream, size): a freshly opened stream, the cursor at 0
Init ==
    /\ stream \in SeqsUpTo(Byte, MaxLen)
    /\ size \in {power_of_2(r) : r \in ReadSizes}
    /\ pos = 0
    /\ op = "init"
    /\ from = 0
    /\ arg = 0
    /\ ret = 0
    /\ lines = <<>>
    /\ raised = "none"
    /\ FollowIdle

CallSeek(o) ==
    /\ pos' = o
    /\ op' = "seek"
    /\ from' = pos
    /\ arg' = o
    /\ ret' = o
    /\ lines' = <<>>
    /\ raised' = "none"
    /\ UNCHANGED <<stream, size, fsVars, followVars, writerVars>>

CallNext ==
    LET r == next(stream, size, pos)
    IN  /\ pos' = r.pos
        /\ op' = "next"
        /\ from' = pos
        /\ arg' = 0
        /\ ret' = r.ret
        /\ lines' = <<>>
        /\ raised' = r.raised
        /\ UNCHANGED <<stream, size, fsVars, followVars, writerVars>>

CallPrevious ==
    LET r == previous(stream, size, pos)
    IN  /\ pos' = r.pos
        /\ op' = "previous"
        /\ from' = pos
        /\ arg' = 0
        /\ ret' = r.ret
        /\ lines' = <<>>
        /\ raised' = r.raised
        /\ UNCHANGED <<stream, size, fsVars, followVars, writerVars>>

CallTail(n) ==
    LET r == tail(stream, size, n)
    IN  /\ pos' = r.pos
        /\ op' = "tail"
        /\ from' = pos
        /\ arg' = n
        /\ ret' = 0
        /\ lines' = r.lines
        /\ raised' = r.raised
        /\ UNCHANGED <<stream, size, fsVars, followVars, writerVars>>

CallHead(n) ==
    LET r == head(stream, size, n)
    IN  /\ pos' = r.pos
        /\ op' = "head"
        /\ from' = pos
        /\ arg' = n
        /\ ret' = 0
        /\ lines' = r.lines
        /\ raised' = r.raised
        /\ UNCHANGED <<stream, size, fsVars, followVars, writerVars>>

Next ==
    \/ \E o \in 0..Len(stream) : CallSeek(o)
    \/ CallNext
    \/ CallPrevious
    \/ \E n \in 0..MaxLines : CallTail(n)
    \/ \E n \in 0..MaxLines : CallHead(n)

Spec == Init /\ [][Next]_vars

-----------------------------------------------------------------------------
(* What the scanner is to compute, stated on the stream alone *)

\* the logical lines of a stream: every terminator (a CR directly followed by
\* a LF being one terminator) ends a line, and bytes after the last
\* terminator are a last line
RECURSIVE LinesFrom(_, _)
LinesFrom(s, acc) ==
    IF s = <<>> THEN IF acc = <<>> THEN <<>> ELSE <<acc>>
    ELSE IF Len(s) >= 2 /\ s[1] = CR /\ s[2] = LF
    THEN <<acc>> \o LinesFrom(Drop(s, 2), <<>>)
    ELSE IF s[1] \in {CR, LF}
    THEN <<acc>> \o LinesFrom(Drop(s, 1), <<>>)
    ELSE LinesFrom(Tail(s), Append(acc, s[1]))

LogicalLines(s) == LinesFrom(s, <<>>)

LastLines(q, n) == SubSeq(q, Len(q) - Min(n, Len(q)) + 1, Len(q))
FirstLines(q, n) == SubSeq(q, 1, Min(n, Len(q)))

\* offset p lies between the CR and the LF of a CRLF pair
InsideCRLF(s, p) ==
    /\ p >= 1
    /\ p < Len(s)
    /\ s[p] = CR
    /\ s[p + 1] = LF

\* offset p is where a line starts: the start of the stream, or just past a
\* terminator
LineStart(s, p) ==
    \/ p = 0
    \/ /\ p >= 1
       /\ p <= Len(s)
       /\ s[p] \in {CR, LF}
       /\ ~InsideCRLF(s, p)

\* the offsets at or after c that hold a terminator byte
TerminatorsFrom(s, c) == {i \in c..(Len(s) - 1) : s[i + 1] \in {CR, LF}}

\* the offset just past the first terminator at or after c, -1 without one
FirstBoundary(s, c) ==
    LET T == TerminatorsFrom(s, c)
        i == CHOOSE j \in T : \A k \in T : j <= k
    IN  IF T = {} THEN -1
        ELSE IF s[i + 1] = CR /\ i + 1 < Len(s) /\ s[i + 2] = LF THEN i + 2
        ELSE i + 1

-----------------------------------------------------------------------------
(* Claims about the scanner *)

\* C1: for a stream of k >= 1 logical lines, tail(n) with n >= 1 returns the
\* last min(n, k) lines in order, without terminators, empty lines included,
\* whatever the chunk size (1, 2 or 1024).
C1_TailReturnsLastLines ==
    (op = "tail" /\ arg >= 1 /\ Len(LogicalLines(stream)) >= 1)
        => /\ raised = "none"
           /\ lines = LastLines(LogicalLines(stream), arg)

\* C2: for a stream of k >= 1 logical lines, head(n) with n >= 1 returns the
\* first min(n, k) lines in order, without terminators, empty lines included,
\* whatever the chunk size.
C2_HeadReturnsFirstLines ==
    (op = "head" /\ arg >= 1 /\ Len(LogicalLines(stream)) >= 1)
        => /\ raised = "none"
           /\ lines = FirstLines(LogicalLines(stream), arg)

\* C6: tail(n) with n greater than the number of lines never raises, for every
\* stream and chunk size (no backward seek targets a negative offset).
C6_TailBeyondCountNeverRaises ==
    (op = "tail" /\ arg > Len(LogicalLines(stream))) => raised = "none"

\* C7: previous() called at end-of-stream or at a line start never returns an
\* offset, nor leaves the cursor, between the CR and the LF of a CRLF pair.
C7_PreviousKeepsCRLFWhole ==
    (op = "previous" /\ (from = Len(stream) \/ LineStart(stream, from)))
        => /\ ~InsideCRLF(stream, ret)
           /\ ~InsideCRLF(stream, pos)

\* C8: next() called at cursor c returns the offset just past the first
\* terminator at or after c, a CRLF counting as one terminator also when a
\* chunk boundary falls between its bytes, and leaves the cursor there; it
\* returns -1 exactly when no terminator byte lies between c and the end of
\* the stream; the chunk size does not matter.
C8_NextFindsFirstBoundary ==
    op = "next"
        => /\ raised = "none"
           /\ ret = FirstBoundary(stream, from)
           /\ (ret = -1) = (TerminatorsFrom(stream, from) = {})
           /\ (ret # -1 => pos = ret)

\* C8 witness: next() has returned the offset past a CRLF whose CR was the
\* last byte of one chunk and whose LF was the first byte of the next.
C8_Witness ==
    /\ op = "next"
    /\ size <= 2
    /\ ret >= 2
    /\ stream[ret - 1] = CR
    /\ stream[ret] = LF
    /\ ret - 1 > from
    /\ (ret - 1 - from) % size = 0

-----------------------------------------------------------------------------
(* Tailer.follow *)

Range(f) == {f[i] : i \in DOMAIN f}

\* the attributes of class Tailer that follow() can look up on self
TailerAttributes ==
    {"_size", "stream", "_terminators", "size", "seek", "tell", "splitlines",
     "read", "term", "prefix", "suffix", "next", "previous", "tail", "head",
     "follow"}

\* stream.readline() of a binary stream at offset p: the bytes up to and
\* including the next LF, or up to the end of the stream
readline(content, p) ==
    LET T == {i \in (p + 1)..Len(content) : content[i] = LF}
    IN  IF T = {} THEN SubSeq(content, p + 1, Len(content))
        ELSE SubSeq(content, p + 1, CHOOSE i \in T : \A j \in T : i <= j)

\* where > os.fstat(...).st_size: the file was truncated
truncated(where, st_size) == where > st_size

\* the else branch without trailing = True
trailing_after_none_kept(trailing) == trailing

\* the local trailing once the generator has found no data
trailing_after_none(trailing) == TRUE

\* one next() of a live follow generator: the loop runs until a yield or an
\* exception leaves it; swallowed counts the lone terminators it skipped
RECURSIVE follow_next(_, _)
follow_next(g, content) ==
    LET where == IF truncated(g.pos, Len(content)) THEN 0 ELSE g.pos
        line == readline(content, where)
        after == where + Len(line)
    IN  IF line # <<>>
        THEN IF g.trailing /\ line \in Range(_terminators)
             THEN [follow_next([g EXCEPT !.trailing = FALSE, !.pos = after],
                               content) EXCEPT !.swallowed = @ + 1]
             ELSE IF "suffix_line_terminator" \notin TailerAttributes
             THEN [gen |-> [g EXCEPT !.state = "done", !.pos = after],
                   out |-> RaiseOut, err |-> "AttributeError", swallowed |-> 0]
             ELSE [gen |-> [g EXCEPT !.trailing = FALSE, !.pos = after],
                   out |-> LineOut(chop(line)), err |-> "none",
                   swallowed |-> 0]
        ELSE [gen |-> [g EXCEPT !.trailing = trailing_after_none(g.trailing),
                               !.pos = where],
              out |-> NoneOut, err |-> "none", swallowed |-> 0]

\* next(generator): a generator that an exception has left is exhausted
generator_next(g, content) ==
    IF g.state = "done"
    THEN [gen |-> g, out |-> RaiseOut, err |-> "StopIteration",
          swallowed |-> 0]
    ELSE follow_next(g, content)

\* Tailer(file, end).follow(): the constructor seeks to the end when end
new_generator(ino, content, end_) ==
    [state |-> "live", trailing |-> TRUE,
     pos |-> IF end_ THEN Len(content) ELSE 0, ino |-> ino]

Yielded(o) == IF o.kind = "line" THEN <<o.line>> ELSE <<>>

-----------------------------------------------------------------------------
(* follow(file): one session over an open stream that a writer changes *)

EmptyFiles == [i \in 1..MaxInode |-> <<>>]

\* follow(fo): fo is open on a file of any content
InitFollow ==
    /\ ScanIdle
    /\ inode = 1
    /\ \E c \in SeqsUpTo(Byte, MaxStart) :
          /\ files = [EmptyFiles EXCEPT ![1] = c]
          /\ follow_generator = new_generator(1, c, TRUE)
    /\ handles = {1}
    /\ following_file = 1
    /\ follow_from_end_on_open = FALSE
    /\ pfrom = 0
    /\ pre = NoPre
    /\ out = NoOut
    /\ err = "none"
    /\ yielded = <<>>
    /\ opens = <<TRUE>>
    /\ swallows = 0
    /\ wpc = 0
    /\ polled = FALSE

\* the writer appends bytes to the file, which holds at most max bytes
AppendBytes(bytes, max) ==
    /\ inode # 0
    /\ Len(files[inode]) + Len(bytes) <= max
    /\ files' = [files EXCEPT ![inode] = @ \o bytes]
    /\ polled' = FALSE
    /\ UNCHANGED <<inode, handles, scanVars, followVars, wpc>>

Write(bytes) == AppendBytes(bytes, MaxFile)

\* the writer truncates the file to zero length
Truncate ==
    /\ inode # 0
    /\ files[inode] # <<>>
    /\ files' = [files EXCEPT ![inode] = <<>>]
    /\ polled' = FALSE
    /\ UNCHANGED <<inode, handles, scanVars, followVars, wpc>>

\* what a stream holds from offset p on: nothing, one terminator and no more,
\* or other data
Pending(content, p) ==
    IF Drop(content, p) = <<>> THEN "nothing"
    ELSE IF Drop(content, p) \in Range(_terminators) THEN "terminator"
    ELSE "data"

\* the session and its stream as a poll finds them
Found(g, content, inner, ff, ino, fail) ==
    [following |-> ff,
     drained |-> g.state = "live" /\ g.pos = Len(content),
     path |-> ino, fail |-> fail,
     live |-> g.state = "live", trailing |-> g.trailing,
     pending |-> Pending(content,
                         IF truncated(g.pos, Len(content)) THEN 0 ELSE g.pos),
     inner |-> inner]

\* next(generator) on the session
FollowPoll ==
    LET r == generator_next(follow_generator, files[follow_generator.ino])
    IN  /\ follow_generator' = r.gen
        /\ pfrom' = follow_generator.pos
        /\ pre' = Found(follow_generator, files[follow_generator.ino],
                        r.out.kind, following_file, inode, "none")
        /\ out' = r.out
        /\ err' = r.err
        /\ yielded' = yielded \o Yielded(r.out)
        /\ swallows' = Min(swallows + r.swallowed, MaxSwallows)
        /\ polled' = TRUE
        /\ UNCHANGED <<following_file, follow_from_end_on_open, opens, wpc,
                       fsVars, scanVars>>

NextFollow ==
    \/ \E b \in Byte : Write(<<b>>)
    \/ Truncate
    \/ FollowPoll

SpecFollow == InitFollow /\ [][NextFollow]_vars

-----------------------------------------------------------------------------
(* The truncate scenario of follow's doctest: the writer writes "Line 1\n",
   truncates the file to zero and writes "Line 3\n", while the session polls *)

Line1 == <<"L", "i", "n", "e", " ", "1">>
Line3 == <<"L", "i", "n", "e", " ", "3">>

\* f.write("Line 1\n"); f.flush()
WriteLine1 ==
    /\ wpc = 0
    /\ files' = [files EXCEPT ![inode] = @ \o Line1 \o <<LF>>]
    /\ wpc' = 1
    /\ polled' = FALSE
    /\ UNCHANGED <<inode, handles, scanVars, followVars>>

\* f.truncate(0); f.seek(0)
TruncateToZero ==
    /\ wpc = 1
    /\ files' = [files EXCEPT ![inode] = <<>>]
    /\ wpc' = 2
    /\ polled' = FALSE
    /\ UNCHANGED <<inode, handles, scanVars, followVars>>

\* f.write("Line 3\n"); f.flush()
WriteLine3 ==
    /\ wpc = 2
    /\ files' = [files EXCEPT ![inode] = @ \o Line3 \o <<LF>>]
    /\ wpc' = 3
    /\ polled' = FALSE
    /\ UNCHANGED <<inode, handles, scanVars, followVars>>

NextTruncate ==
    \/ WriteLine1
    \/ TruncateToZero
    \/ WriteLine3
    \/ FollowPoll

SpecTruncate == InitFollow /\ [][NextTruncate]_vars

-----------------------------------------------------------------------------
(* follow_path(file_path): FollowPathGenerator over a path whose file is
   written, truncated, deleted and recreated *)

\* the bytes the writer of a watched path writes
PathByte == {"a", LF}

\* the ways io.open(...) and Tailer(..., end=...) can fail inside the try
OpenFailures == {"none", "open", "seek"}

\* a file that is neither at the path nor open is gone
Forget(fs, h, ino) ==
    [i \in 1..MaxInode |-> IF i \in h \/ i = ino THEN fs[i] ELSE <<>>]

\* a handle dropped without self.following_file.close()
close_skipped(h, ff) == h

\* self.following_file.close(): the handle to inode ff is no longer open
close(h, ff) == h \ {ff}

\* the try block without self.follow_from_end_on_open = False
flag_after_open_kept(flag) == flag

\* self.follow_from_end_on_open once a session is opened
flag_after_open(flag) == FALSE

\* the except clause without self.following_file = None
failed_following_file_kept(opened) == opened

\* self.following_file once the except clause has run, opened being the
\* handle io.open returned before the failure, 0 when io.open itself failed
failed_following_file(opened) == 0

\* FollowPathGenerator.next: the fields after the call, what it returns, what
\* the inner generator returned to it, and the end argument of the Tailer it
\* opened, if it opened one
path_next(ff, g, flag, h, ino, fs, fail) ==
    LET r1 == IF g # NoGen THEN generator_next(g, fs[g.ino])
              ELSE [gen |-> NoGen, out |-> NoneOut, err |-> "none",
                    swallowed |-> 0]
        inner == IF g # NoGen THEN r1.out.kind ELSE "-"
        is_file_changed == g # NoGen /\ (ino = 0 \/ ino # ff)
        ff1 == IF is_file_changed THEN 0 ELSE ff
        g1 == IF is_file_changed THEN NoGen ELSE r1.gen
        h1 == IF is_file_changed THEN close(h, ff) ELSE h
        failed == fail = "open" \/ (fail = "seek" /\ flag)
        opened == IF fail = "open" THEN 0 ELSE ino
        r2 == generator_next(new_generator(ino, fs[ino], flag), fs[ino])
    IN  IF r1.err # "none" \/ r1.out.kind = "line"
        THEN [following_file |-> ff, follow_generator |-> r1.gen,
              follow_from_end_on_open |-> flag, handles |-> h,
              out |-> r1.out, err |-> r1.err,
              inner |-> inner, opened |-> <<>>]
        ELSE IF ~(g1 = NoGen /\ ino # 0)
        THEN [following_file |-> ff1, follow_generator |-> g1,
              follow_from_end_on_open |-> flag, handles |-> h1,
              out |-> NoneOut, err |-> "none",
              inner |-> inner, opened |-> <<>>]
        ELSE IF failed
        THEN [following_file |-> failed_following_file(opened),
              follow_generator |-> NoGen,
              follow_from_end_on_open |-> flag,
              handles |-> IF opened # 0 THEN close(h1 \cup {opened}, opened)
                          ELSE h1,
              out |-> NoneOut, err |-> "none",
              inner |-> inner, opened |-> <<>>]
        ELSE [following_file |-> ino, follow_generator |-> r2.gen,
              follow_from_end_on_open |-> flag_after_open(flag),
              handles |-> h1 \cup {ino},
              out |-> r2.out, err |-> r2.err,
              inner |-> inner, opened |-> <<flag>>]

\* what opens records once one more Tailer is opened, o holding its end
\* argument
Opened(os, o) ==
    IF o = <<>> THEN os
    ELSE IF os = <<>> THEN o
    ELSE <<os[1], (Len(os) > 1 /\ os[2]) \/ o[1]>>

\* FollowPathGenerator.__init__, on a path that is absent or holds a file
InitPath ==
    /\ ScanIdle
    /\ \/ /\ inode = 0
          /\ files = EmptyFiles
          /\ handles = {}
          /\ following_file = 0
          /\ follow_generator = NoGen
          /\ follow_from_end_on_open = TRUE
          /\ opens = <<>>
       \/ /\ inode = 1
          /\ \E c \in SeqsUpTo(PathByte, MaxStart) :
                /\ files = [EmptyFiles EXCEPT ![1] = c]
                /\ follow_generator = new_generator(1, c, TRUE)
          /\ handles = {1}
          /\ following_file = 1
          /\ follow_from_end_on_open = FALSE
          /\ opens = <<TRUE>>
    /\ pfrom = 0
    /\ pre = NoPre
    /\ out = NoOut
    /\ err = "none"
    /\ yielded = <<>>
    /\ swallows = 0
    /\ wpc = 0
    /\ polled = FALSE

\* os.remove(file_path)
Delete ==
    /\ inode # 0
    /\ inode' = 0
    /\ files' = Forget(files, handles, 0)
    /\ polled' = FALSE
    /\ UNCHANGED <<handles, scanVars, followVars, wpc>>

\* io.open(file_path, "w+") by the writer: a new file, whose inode is that of
\* no file still open
Create(i) ==
    /\ inode = 0
    /\ i \notin handles
    /\ inode' = i
    /\ files' = [files EXCEPT ![i] = <<>>]
    /\ polled' = FALSE
    /\ UNCHANGED <<handles, scanVars, followVars, wpc>>

\* the writer appends bytes to the file at the path
PathWrite(bytes) == AppendBytes(bytes, MaxPathFile)

\* the state a poll leaves, r being what FollowPathGenerator.next computed
PathPolled(r, fail) ==
    /\ following_file' = r.following_file
    /\ follow_generator' = r.follow_generator
    /\ follow_from_end_on_open' = r.follow_from_end_on_open
    /\ handles' = r.handles
    /\ files' = Forget(files, r.handles, inode)
    /\ pfrom' = follow_generator.pos
    /\ pre' = Found(follow_generator,
                    IF follow_generator = NoGen THEN <<>>
                    ELSE files[follow_generator.ino],
                    r.inner, following_file, inode, fail)
    /\ out' = r.out
    /\ err' = r.err
    /\ yielded' = yielded \o Yielded(r.out)
    /\ opens' = Opened(opens, r.opened)
    /\ polled' = TRUE
    /\ UNCHANGED <<inode, swallows, wpc, scanVars>>

\* next(generator) with the path checked before the inner generator is polled:
\* a changed file is closed unread
PathPoll_checks_first(fail) ==
    PathPolled(IF /\ follow_generator # NoGen
                  /\ (inode = 0 \/ inode # following_file)
               THEN path_next(0, NoGen, follow_from_end_on_open,
                              close(handles, following_file), inode, files,
                              fail)
               ELSE path_next(following_file, follow_generator,
                              follow_from_end_on_open, handles, inode, files,
                              fail),
               fail)

\* next(generator) on the FollowPathGenerator
PathPoll(fail) ==
    PathPolled(path_next(following_file, follow_generator,
                         follow_from_end_on_open, handles, inode, files, fail),
               fail)

NextPath ==
    \/ \E b \in PathByte : PathWrite(<<b>>)
    \/ Truncate
    \/ Delete
    \/ \E i \in 1..MaxInode : Create(i)
    \/ \E fail \in OpenFailures : PathPoll(fail)

SpecPath == InitPath /\ [][NextPath]_vars

-----------------------------------------------------------------------------
(* Claims about follow and follow_path *)

IsPrefix(p, q) == Len(p) <= Len(q) /\ SubSeq(q, 1, Len(p)) = p

\* the content of the line that starts at offset p, up to its terminator
LineAt(s, p) ==
    LET T == TerminatorsFrom(s, p)
    IN  SubSeq(s, p + 1, CHOOSE j \in T : \A k \in T : j <= k)

\* the stream the session reads, as the last poll found it
Followed == files[follow_generator.ino]

\* C3: a poll of a follow session that finds a complete line (content
\* followed by a terminator) at the cursor yields that content without the
\* terminator and advances the cursor to just past the terminator.
C3_PollYieldsCompleteLine ==
    (/\ polled
     /\ pfrom <= Len(Followed)
     /\ TerminatorsFrom(Followed, pfrom) # {}
     /\ LineAt(Followed, pfrom) # <<>>)
        => /\ err = "none"
           /\ out = LineOut(LineAt(Followed, pfrom))
           /\ follow_generator.pos = FirstBoundary(Followed, pfrom)

\* C4: in the scenario "Line 1\n" written, file truncated to zero, "Line 3\n"
\* written, no poll of the session raises, the session stays able to yield, a
\* poll made once "Line 1\n" is written yields "Line 1", and the lines yielded
\* are "Line 1" then "Line 3" with nothing stale or partial in between.
C4_TruncateScenario ==
    /\ err = "none"
    /\ follow_generator.state = "live"
    /\ IsPrefix(yielded, <<Line1, Line3>>)
    /\ (wpc = 1 /\ polled) => yielded = <<Line1>>

\* C5: a follow_path poll that begins Following a drained file whose path now
\* holds a new file with one complete line, and whose open succeeds, yields
\* that line.
C5_RotationYieldsNewLine ==
    (/\ polled
     /\ pre.following # 0
     /\ pre.drained
     /\ pre.path # 0
     /\ pre.path # pre.following
     /\ pre.fail = "none"
     /\ files[pre.path] = <<"a", LF>>)
        => /\ err = "none"
           /\ out = LineOut(<<"a">>)

\* C9: a follow poll that finds no data, or only an unterminated line, at the
\* cursor yields the no-data marker and leaves the cursor where the poll
\* started.
C9_NoLineConsumesNothing ==
    (/\ polled
     /\ pfrom <= Len(Followed)
     /\ TerminatorsFrom(Followed, pfrom) = {})
        => /\ err = "none"
           /\ out = NoneOut
           /\ follow_generator.pos = pfrom

\* C10: a poll of a follow_path session never raises, whatever happened to
\* the file; when the path holds a file, no handle is open and the open fails,
\* the poll returns the no-data marker and leaves the session Unopened.
C10_PathPollNeverRaises ==
    /\ err = "none"
    /\ (/\ polled
        /\ pre.following = 0
        /\ pre.path # 0
        /\ pre.fail = "open")
           => /\ out = NoneOut
              /\ following_file = 0
              /\ follow_generator = NoGen

\* C11: after construction and after every poll of a follow_path session,
\* whatever deletions, recreations and open failures happened, the inner
\* generator is present exactly when following_file is set and that handle is
\* open, and the generator reads that handle's file.
C11_SessionIffHandle ==
    /\ (follow_generator # NoGen)
           <=> (following_file # 0 /\ following_file \in handles)
    /\ follow_generator.ino = following_file

\* C11: a poll found a file at the path, failed to open it, and left the
\* session with neither generator nor handle.
C11_Witness ==
    /\ polled
    /\ pre.path # 0
    /\ pre.fail = "seek"
    /\ follow_from_end_on_open
    /\ follow_generator = NoGen
    /\ following_file = 0

-----------------------------------------------------------------------------
(* Claims about the bulk extractors on no lines and on empty streams *)

\* C12: tail(0) and head(0) return the empty list for every stream and scan
\* nothing (they raise nothing and leave the cursor where a call that never
\* calls previous() or next() leaves it: the end of the stream for tail, offset
\* 0 for head); tail(n) on an empty stream returns the empty list for every
\* n >= 0.
C12_ZeroLinesAndEmptyStream ==
    /\ (op = "tail" /\ arg = 0)
           => (lines = <<>> /\ raised = "none" /\ pos = Len(stream))
    /\ (op = "head" /\ arg = 0)
           => (lines = <<>> /\ raised = "none" /\ pos = 0)
    /\ (op = "tail" /\ stream = <<>>)
           => (lines = <<>> /\ raised = "none")

\* C12: tail(0) was called on a stream of three data bytes with chunk size 2,
\* where a single step back raises.
C12_Witness ==
    /\ op = "tail"
    /\ arg = 0
    /\ stream = <<"a", "a", "a">>
    /\ size = 2
    /\ tail(stream, size, 1).raised # "none"

-----------------------------------------------------------------------------
(* The chunk size of a Tailer: the size property set to requested values *)

\* the sizes requested: every integer near 0, and the integers next to the
\* powers of two below 2^30
Requests ==
    (-MaxRequest..MaxRequest)
        \cup {Pow(2, k) + d : k \in 7..29, d \in {-1, 0, 1}}
        \cup {Pow(2, 30) - 1}

\* Tailer(stream): a scanner constructed with the default size
InitSize ==
    /\ stream = <<>>
    /\ size = power_of_2(1024)
    /\ pos = 0
    /\ op = "init"
    /\ from = 0
    /\ arg = 0
    /\ ret = 0
    /\ lines = <<>>
    /\ raised = "none"
    /\ FollowIdle

\* tailer.size = value
SetSize(value) ==
    /\ size' = power_of_2(value)
    /\ op' = "size"
    /\ from' = pos
    /\ arg' = value
    /\ ret' = 0
    /\ lines' = <<>>
    /\ raised' = "none"
    /\ UNCHANGED <<stream, pos, fsVars, followVars, writerVars>>

NextSize == \E value \in Requests : SetSize(value)

SpecSize == InitSize /\ [][NextSize]_vars

IsPowerOfTwo(p) == \E k \in 0..30 : p = Pow(2, k)

\* C13: for every requested size r >= 1 the chunk sizer returns a power of two
\* p with p >= r and p/2 < r, the smallest power of two not below r; a request
\* that is a power of two is returned unchanged.
C13_SmallestPowerOfTwoNotBelow ==
    (op = "size" /\ arg >= 1)
        => /\ IsPowerOfTwo(size)
           /\ size >= arg
           /\ size \div 2 < arg
           /\ IsPowerOfTwo(arg) => size = arg

\* C13: a size above 1024 that is no power of two was requested and rounded up.
C13_Witness ==
    /\ op = "size"
    /\ arg > 1024
    /\ ~IsPowerOfTwo(arg)
    /\ size > arg

\* C18: a request of 0 or less gives chunk size 1, so the chunk size of a
\* scanner is always a power of two that is at least 1.
C18_NonPositiveRequestGivesOne ==
    /\ IsPowerOfTwo(size)
    /\ (op = "size" /\ arg <= 0) => size = 1

-----------------------------------------------------------------------------
(* Claims about lone terminators in a follow session *)

\* the cursor the last poll first read from, and what that readline() returned
FirstWhere == IF truncated(pfrom, Len(Followed)) THEN 0 ELSE pfrom
FirstRead == readline(Followed, FirstWhere)

C16_PollReadsToAnyTerminator ==
    (/\ polled
     /\ pre.live
     /\ pfrom <= Len(Followed)
     /\ TerminatorsFrom(Followed, pfrom) # {}
     /\ LineAt(Followed, pfrom) # <<>>
     /\ Followed[pfrom + Len(LineAt(Followed, pfrom)) + 1] = CR)
        => /\ out = LineOut(LineAt(Followed, pfrom))
           /\ follow_generator.pos = FirstBoundary(Followed, pfrom)

-----------------------------------------------------------------------------
(* Claims about the sessions and handles of follow_path *)

\* C15: in a follow_path session the first Tailer ever opened is the only one
\* positioned at the end of its stream: every later one is opened with end
\* false and so starts at offset 0, and follow_from_end_on_open is set exactly
\* as long as no Tailer has been opened, so once cleared it stays cleared.
C15_OnlyFirstOpenFromEnd ==
    /\ follow_from_end_on_open <=> opens = <<>>
    /\ opens # <<>> => opens[1]
    /\ Len(opens) > 1 => ~opens[2]

\* C15: a poll found the file replaced and opened the session's second Tailer.
C15_Witness ==
    /\ polled
    /\ pre.following # 0
    /\ following_file # 0
    /\ following_file # pre.following
    /\ Len(opens) > 1
    /\ follow_generator.pos = 0

C19_AtMostOneHandleOpen ==
    /\ Cardinality(handles) <= 1
    /\ handles = IF following_file = 0 THEN {} ELSE {following_file}

\* C19: a poll found the file replaced, closed the old handle, failed to open
\* the new file, and left no handle open.
C19_Witness ==
    /\ polled
    /\ pre.following # 0
    /\ pre.path # 0
    /\ pre.path # pre.following
    /\ pre.fail = "open"
    /\ following_file = 0
    /\ handles = {}

=============================================================================
